---------------------------- MODULE Spec2Model ----------------------------
(***************************************************************************)
(* Model of apps/TestC/src/main.c: the machine-mode trap dispatcher        *)
(* handle_trap, the load-reserved/store-conditional loop atomic_lr_sc and  *)
(* main, on a 32-bit RISC-V hart with a memory-mapped 64-bit timer.        *)
(*                                                                         *)
(* Numbers wider than 31 bits are kept as little-endian sequences of       *)
(* 16-bit limbs: a 32-bit word is <<lo16, hi16>>, a 64-bit value is four   *)
(* limbs.  Arithmetic is carried limb by limb, modulo the value's width.   *)
(***************************************************************************)
EXTENDS Integers, Sequences, FiniteSets, TLC

\* ------------------------------------------------------------------------
\* Bounds of the model
\* ------------------------------------------------------------------------
NumHarts == 2
MaxTicks == 2
MaxTraps == 2
MaxExt == 1

\* ------------------------------------------------------------------------
\* Limb arithmetic
\* ------------------------------------------------------------------------
LimbBase == 2^16

ZERO32 == <<0, 0>>

\* The 32-bit word with the hexadecimal halves hi16:lo16.
W32(hi16, lo16) == <<lo16, hi16>>

\* A small natural number (below 2^31) as a 64-bit value.
U64(n) == <<n % LimbBase, n \div LimbBase, 0, 0>>

Lo32(x) == <<x[1], x[2]>>
Hi32(x) == <<x[3], x[4]>>
Join64(lo, hi) == lo \o hi

RECURSIVE AddLimbs(_, _, _)
AddLimbs(a, b, carry) ==
    IF a = <<>> THEN <<>>
    ELSE LET s == Head(a) + Head(b) + carry
         IN  <<s % LimbBase>> \o AddLimbs(Tail(a), Tail(b), s \div LimbBase)

\* uint64_t addition: the carry out of the top limb is dropped.
Add64(a, b) == AddLimbs(a, b, 0)

RECURSIVE LessLimbs(_, _)
LessLimbs(a, b) ==
    IF a = <<>> THEN FALSE
    ELSE LET n == Len(a)
         IN  \/ a[n] < b[n]
             \/ a[n] = b[n] /\ LessLimbs(SubSeq(a, 1, n - 1), SubSeq(b, 1, n - 1))

RECURSIVE AndNotLimb(_, _)
AndNotLimb(x, m) ==
    IF x = 0 THEN 0
    ELSE (x % 2) * (1 - (m % 2)) + 2 * AndNotLimb(x \div 2, m \div 2)

RECURSIVE OrLimb(_, _)
OrLimb(x, m) ==
    IF x = 0 /\ m = 0 THEN 0
    ELSE (IF x % 2 = 1 \/ m % 2 = 1 THEN 1 ELSE 0) + 2 * OrLimb(x \div 2, m \div 2)

\* 1 << n as a 32-bit word.
Shl1(n) == IF n < 16 THEN <<2^n, 0>> ELSE <<0, 2^(n - 16)>>

TestBit(w, n) ==
    IF n < 16 THEN (w[1] \div 2^n) % 2 = 1 ELSE (w[2] \div 2^(n - 16)) % 2 = 1

SetBits(w, m) == <<OrLimb(w[1], m[1]), OrLimb(w[2], m[2])>>


\* ------------------------------------------------------------------------
\* Program constants
\* ------------------------------------------------------------------------
IO_BASE == W32(49152, 0)                                  \* 0xc0000000
IO_MTIME == AddLimbs(IO_BASE, W32(0, 16384), 0)           \* IO_BASE + 0x4000
\* The compare register placed at the address atomic_lr_sc locks.
IO_MTIMECMP_AtLock == W32(49168, 0)
IO_MTIMECMP == AddLimbs(IO_BASE, W32(0, 16392), 0)        \* IO_BASE + 0x4008
\* The address of the upper 32-bit half of a 64-bit register.
HiAddr(base) == AddLimbs(base, W32(0, 4), 0)

\* atomic_lr_sc with an address inside the compare register in the place of
\* the lock's.
LOCK_ADDR_InCompare == HiAddr(IO_MTIMECMP)
LOCK_ADDR == W32(49168, 0)                                \* 0xc0100000

MCAUSE_TIMER == W32(32768, 7)                             \* 0x80000007
MCAUSE_EXTERNAL == W32(32768, 11)                         \* 0x8000000b
TIMER_BIT == 7
EXTERNAL_BIT == 11
REARM_INTERVAL == 1000
INITIAL_INTERVAL == 100

HalfAddr(base, half) == IF half = "lo" THEN base ELSE HiAddr(base)

Addrs == {IO_MTIME, HiAddr(IO_MTIME), IO_MTIMECMP, HiAddr(IO_MTIMECMP), LOCK_ADDR}

\* The register a store to addr changes.
RegOf(addr) ==
    IF addr \in {IO_MTIMECMP, HiAddr(IO_MTIMECMP)} THEN "mtimecmp"
    ELSE IF addr \in {IO_MTIME, HiAddr(IO_MTIME)} THEN "mtime"
    ELSE "lock"

\* ------------------------------------------------------------------------
\* Inputs of the model
\* ------------------------------------------------------------------------
Harts == 1..NumHarts
None == <<>>
Halves == {"lo", "hi"}

\* Counter values at start: a small one, one whose low word is about to
\* carry into the high word, and three about to wrap around 2^64, among them
\* 2^64 - 1001 and 2^64 - 1000.
CounterInits ==
    {U64(5000), <<65000, 65535, 0, 0>>, <<65000, 65535, 65535, 65535>>,
     <<64535, 65535, 65535, 65535>>, <<64536, 65535, 65535, 65535>>}
CmpInits == {U64(0), <<65535, 65535, 65535, 65535>>}
MipInits == {ZERO32, Shl1(TIMER_BIT), SetBits(Shl1(TIMER_BIT), Shl1(EXTERNAL_BIT)),
             W32(32768, 2184), W32(65535, 65535)}
TickSteps == {1200}
\* What an uninitialised register may hold.
RegGarbage == {ZERO32, W32(0, 1), W32(1, 2)}

\* Cause values: the two interrupts, the exceptions 0..8, and values the
\* switch has no case for (among them interrupt-flagged ones).
Causes ==
    {MCAUSE_TIMER, MCAUSE_EXTERNAL} \cup {W32(0, n) : n \in 0..8}
        \cup {W32(0, 9), W32(0, 11), W32(32768, 3), W32(32768, 0), W32(1, 7)}

\* ------------------------------------------------------------------------
\* State
\* ------------------------------------------------------------------------
VARIABLES
    mem,        \* memory-mapped words: counter, compare register, lock word
    lock_var,   \* the global lock_var
    mip,        \* the pending-interrupt CSR
    mcause,     \* the cause CSR
    hpc,        \* position in handle_trap ("none": not in a trap)
    hcause,     \* handle_trap's local mcause
    hld,        \* halves of the counter handle_trap has loaded
    hst,        \* halves of the compare register handle_trap has stored
    pc,         \* position of each hart in main / atomic_lr_sc
    a0, a1, a2, a3,  \* registers of each hart
    resv,       \* each hart's reservation (an address, or None)
    mld, mst,   \* halves main has loaded / stored
    build,      \* whether the build accesses the low half of a 64-bit value first
    ticks, traps, exts,  \* counters bounding the model
    entry,      \* history: the registers at the entry of the trap in progress, and
                \* the cause and the counter read of the dispatch before it
    writes,     \* history: <<register, function>> of every write by the program
    lock0       \* history: the lock word at start

memVars == <<mem, lock_var>>
csrVars == <<mip, mcause>>
trapVars == <<hpc, hcause, hld, hst>>
hartVars == <<pc, a0, a1, a2, a3, resv>>
mainVars == <<mld, mst>>
histVars == <<entry, writes, lock0>>
vars == <<mem, lock_var, mip, mcause, hpc, hcause, hld, hst, pc, a0, a1, a2, a3,
          resv, mld, mst, build, ticks, traps, exts, entry, writes, lock0>>

Mtime == Join64(mem[IO_MTIME], mem[HiAddr(IO_MTIME)])
Mtimecmp == Join64(mem[IO_MTIMECMP], mem[HiAddr(IO_MTIMECMP)])
LockWord == mem[LOCK_ADDR]

NoHalves == [lo |-> None, hi |-> None]
NoEntry == [mip |-> ZERO32, cmp |-> U64(0), lock |-> ZERO32, prev |-> ZERO32,
            prevld |-> NoHalves]
Loaded(ld) == {h \in Halves : ld[h] # None}
\* The half the build accesses next, given the halves already accessed.
NextHalf(done, loFirst) ==
    IF loFirst THEN (IF "lo" \in done THEN "hi" ELSE "lo")
    ELSE (IF "hi" \in done THEN "lo" ELSE "hi")
HalfOf(v, half) == IF half = "lo" THEN Lo32(v) ELSE Hi32(v)

MemInit(counter, cmp, lock) ==
    [a \in Addrs |->
        IF a = LOCK_ADDR THEN lock
        ELSE IF a = IO_MTIME THEN Lo32(counter)
        ELSE IF a = HiAddr(IO_MTIME) THEN Hi32(counter)
        ELSE IF a = IO_MTIMECMP THEN Lo32(cmp)
        ELSE Hi32(cmp)]

\* What every specification starts from, but for the pending field and the
\* harts' positions: the counter, the compare register and the lock word hold
\* one of the given values, register a2 of the harts in users one of garbage.
InitWith(counters, cmps, locks, users, garbage) ==
    /\ \E c \in counters, m \in cmps, l \in locks :
          /\ mem = MemInit(c, m, l)
          /\ lock0 = l
    /\ lock_var = ZERO32
    /\ mcause = ZERO32
    /\ hpc = "none" /\ hcause = ZERO32 /\ hld = NoHalves /\ hst = {}
    /\ a0 = [h \in Harts |-> ZERO32]
    /\ a1 = [h \in Harts |-> ZERO32]
    /\ \E g \in [users -> garbage] :
          a2 = [h \in Harts |-> IF h \in users THEN g[h] ELSE ZERO32]
    /\ a3 = [h \in Harts |-> ZERO32]
    /\ resv = [h \in Harts |-> None]
    /\ mld = NoHalves /\ mst = {}
    /\ build \in BOOLEAN
    /\ ticks = 0 /\ traps = 0 /\ exts = 0
    /\ entry = NoEntry
    /\ writes = {}

\* ------------------------------------------------------------------------
\* Hardware
\* ------------------------------------------------------------------------
\* The free-running counter advances.
Tick ==
    /\ ticks < MaxTicks
    /\ \E d \in TickSteps :
          LET t == Add64(Mtime, U64(d))
          IN  mem' = [mem EXCEPT ![IO_MTIME] = Lo32(t), ![HiAddr(IO_MTIME)] = Hi32(t)]
    /\ ticks' = ticks + 1
    /\ UNCHANGED <<lock_var, csrVars, trapVars, hartVars, mainVars, build, traps,
                   exts, histVars>>

\* csrw in the place of csrc: the register is overwritten with the mask.
CsrcAsCsrw(reg, mask) == mask

\* csrc: clear in reg the bits set in mask.
Csrc(reg, mask) == <<AndNotLimb(reg[1], mask[1]), AndNotLimb(reg[2], mask[2])>>

\* A store of the program to memory, by function fn.
Store(addr, val, fn) ==
    /\ mem' = [mem EXCEPT ![addr] = val]
    /\ writes' = writes \cup {<<RegOf(addr), fn>>}

\* ------------------------------------------------------------------------
\* handle_trap
\* ------------------------------------------------------------------------
\* The hart takes a trap with cause c: control enters handle_trap.
TrapEntry(c) ==
    /\ hpc = "none"
    /\ traps < MaxTraps
    /\ traps' = traps + 1
    /\ mcause' = c
    /\ hpc' = "csrr"
    /\ hld' = NoHalves /\ hst' = {}
    /\ entry' = [mip |-> mip, cmp |-> Mtimecmp, lock |-> LockWord, prev |-> hcause,
                 prevld |-> hld]

\* csrr %0, mcause
HandleCsrr ==
    /\ hpc = "csrr"
    /\ hcause' = mcause
    /\ hpc' = "switch"
    /\ UNCHANGED <<memVars, csrVars, hld, hst, hartVars, mainVars, build, ticks,
                   traps, exts, histVars>>

ExceptionCodes == {W32(0, n) : n \in 0..8}

\* The switch with case 8 ending in break in the place of while (1).
SwitchTargetEcallBreaks(c) ==
    IF c = MCAUSE_TIMER THEN "t_csrc"
    ELSE IF c = MCAUSE_EXTERNAL THEN "e_csrc"
    ELSE IF c = W32(0, 8) THEN "ret"
    ELSE "halt"

\* The switch on the cause with its interrupt flag masked off.
SwitchTargetNoFlag(c) ==
    IF c[1] = 7 THEN "t_csrc"
    ELSE IF c[1] = 11 THEN "e_csrc"
    ELSE "halt"

\* The switch without the case of the timer interrupt.
SwitchTargetNoTimer(c) ==
    IF c = MCAUSE_EXTERNAL THEN "e_csrc"
    ELSE "halt"

\* The switch without the case of the external interrupt.
SwitchTargetNoExternal(c) ==
    IF c = MCAUSE_TIMER THEN "t_csrc"
    ELSE "halt"

\* switch (mcause): the label control goes to.
SwitchTarget(c) ==
    IF c = MCAUSE_TIMER THEN "t_csrc"
    ELSE IF c = MCAUSE_EXTERNAL THEN "e_csrc"
    ELSE IF c \in ExceptionCodes THEN "halt"
    ELSE "halt"

HandleSwitch ==
    /\ hpc = "switch"
    /\ hpc' = SwitchTarget(hcause)
    /\ UNCHANGED <<memVars, csrVars, hcause, hld, hst, hartVars, mainVars, build,
                   ticks, traps, exts, histVars>>

\* The mask the timer case clears, and the one the external case clears.
TimerMask == Shl1(TIMER_BIT)
\* The external case with the timer case's mask.
ExternalMaskOfTimer == Shl1(TIMER_BIT)
ExternalMask == Shl1(EXTERNAL_BIT)

\* case 0x80000007: csrc mip, 1 << 7
TimerCsrc ==
    /\ hpc = "t_csrc"
    /\ mip' = Csrc(mip, TimerMask)
    /\ writes' = writes \cup {<<"mip", "handle_trap">>}
    /\ hpc' = "t_ld"
    /\ UNCHANGED <<memVars, mcause, hcause, hld, hst, hartVars, mainVars, build,
                   ticks, traps, exts, entry, lock0>>

\* *IO_MTIME: one 32-bit load of the counter.
TimerLoad ==
    /\ hpc = "t_ld"
    /\ LET half == NextHalf(Loaded(hld), build)
           new == [hld EXCEPT ![half] = mem[HalfAddr(IO_MTIME, half)]]
       IN  /\ hld' = new
           /\ hpc' = IF Loaded(new) = Halves THEN "t_st" ELSE "t_ld"
    /\ UNCHANGED <<memVars, csrVars, hcause, hst, hartVars, mainVars, build, ticks,
                   traps, exts, histVars>>

\* The rearm with main's interval.
RearmValueOfMain(counter, cmp) == Add64(counter, U64(INITIAL_INTERVAL))
\* The rearm relative to the compare register, not to the counter.
RearmValueCumulative(counter, cmp) == Add64(cmp, U64(REARM_INTERVAL))

\* The rearm with the addition made on the low word alone.
RearmValueLowWord(counter, cmp) ==
    Join64(Lo32(Add64(counter, U64(REARM_INTERVAL))), Hi32(counter))

\* The value the timer case writes to the compare register, from the counter
\* value read; cmp, the compare register's value at trap entry, plays no part.
RearmValue(counter, cmp) == Add64(counter, U64(REARM_INTERVAL))

\* *IO_MTIMECMP = ...: one 32-bit store to the compare register.
TimerStore ==
    /\ hpc = "t_st"
    /\ LET half == NextHalf(hst, build)
           counter == Join64(hld.lo, hld.hi)
           v == RearmValue(counter, entry.cmp)
           last == hst \cup {half} = Halves
       IN  /\ Store(HalfAddr(IO_MTIMECMP, half), HalfOf(v, half), "handle_trap")
           /\ hst' = hst \cup {half}
           /\ hpc' = IF last THEN "ret" ELSE "t_st"
    /\ UNCHANGED <<lock_var, csrVars, hcause, hld, hartVars, mainVars, build, ticks,
                   traps, exts, entry, lock0>>

\* case 0x8000000b: csrc mip, 1 << 11
ExternalCsrc ==
    /\ hpc = "e_csrc"
    /\ mip' = Csrc(mip, ExternalMask)
    /\ writes' = writes \cup {<<"mip", "handle_trap">>}
    /\ hpc' = "ret"
    /\ UNCHANGED <<memVars, mcause, hcause, hld, hst, hartVars, mainVars, build,
                   ticks, traps, exts, entry, lock0>>

\* while (1);
Halt ==
    /\ hpc = "halt"
    /\ UNCHANGED vars

\* handle_trap returns and the interrupted context resumes.
HandleReturn ==
    /\ hpc = "ret"
    /\ hpc' = "none"
    /\ entry' = NoEntry
    /\ UNCHANGED <<memVars, csrVars, hcause, hld, hst, hartVars, mainVars, build,
                   ticks, traps, exts, writes, lock0>>

HandleResumable ==
    \/ HandleCsrr
    \/ HandleSwitch
    \/ TimerCsrc
    \/ TimerLoad
    \/ TimerStore
    \/ ExternalCsrc
    \/ HandleReturn

\* ------------------------------------------------------------------------
\* atomic_lr_sc, executed by hart h
\* ------------------------------------------------------------------------
\* The hart that takes the traps.
TrapHart == 1
\* An interrupt is pending; the hart takes it before its next instruction.
Deliverable ==
    /\ traps < MaxTraps
    /\ TestBit(mip, TIMER_BIT) \/ TestBit(mip, EXTERNAL_BIT)
\* Normal-mode code of hart h executes its next instruction: on the trap hart
\* only outside handle_trap, and with no interrupt waiting to be taken.
Runs(h) == h = TrapHart => (hpc = "none" /\ ~Deliverable)

\* again: la a0, 0xc0100000
AtomicLa(h) ==
    /\ pc[h] = "la" /\ Runs(h)
    /\ a0' = [a0 EXCEPT ![h] = LOCK_ADDR]
    /\ pc' = [pc EXCEPT ![h] = "li"]
    /\ UNCHANGED <<memVars, csrVars, trapVars, a1, a2, a3, resv, mainVars, build,
                   ticks, traps, exts, histVars>>

\* li a1, 0
AtomicLi(h) ==
    /\ pc[h] = "li" /\ Runs(h)
    /\ a1' = [a1 EXCEPT ![h] = ZERO32]
    /\ pc' = [pc EXCEPT ![h] = "lr"]
    /\ UNCHANGED <<memVars, csrVars, trapVars, a0, a2, a3, resv, mainVars, build,
                   ticks, traps, exts, histVars>>

\* lr.w.aq a3, (a0)
AtomicLr(h) ==
    /\ pc[h] = "lr" /\ Runs(h)
    /\ a3' = [a3 EXCEPT ![h] = mem[a0[h]]]
    /\ resv' = [resv EXCEPT ![h] = a0[h]]
    /\ pc' = [pc EXCEPT ![h] = "bne"]
    /\ UNCHANGED <<memVars, csrVars, trapVars, a0, a1, a2, mainVars, build, ticks,
                   traps, exts, histVars>>

\* beq in the place of bne.
AtomicBneAsBeq(h) ==
    /\ pc[h] = "bne" /\ Runs(h)
    /\ pc' = [pc EXCEPT ![h] = IF a3[h] = a1[h] THEN "la" ELSE "sc"]
    /\ UNCHANGED <<memVars, csrVars, trapVars, a0, a1, a2, a3, resv, mainVars,
                   build, ticks, traps, exts, histVars>>

\* bne a3, a1, again
AtomicBne(h) ==
    /\ pc[h] = "bne" /\ Runs(h)
    /\ pc' = [pc EXCEPT ![h] = IF a3[h] # a1[h] THEN "la" ELSE "sc"]
    /\ UNCHANGED <<memVars, csrVars, trapVars, a0, a1, a2, a3, resv, mainVars,
                   build, ticks, traps, exts, histVars>>

\* A store-conditional that ignores the reservation.
ScSucceedsAlways(h) == TRUE

\* Whether the store-conditional of hart h succeeds.
ScSucceeds(h) == resv[h] = a0[h]
\* The value the store-conditional of hart h stores.
ScValue(h) == a2[h]

\* sc.w.rl a3, a2, (a0)
AtomicSc(h) ==
    /\ pc[h] = "sc" /\ Runs(h)
    /\ IF ScSucceeds(h)
       THEN /\ Store(a0[h], ScValue(h), "atomic_lr_sc")
            /\ a3' = [a3 EXCEPT ![h] = ZERO32]
            /\ resv' = [g \in Harts |-> IF resv[g] = a0[h] THEN None ELSE resv[g]]
       ELSE /\ a3' = [a3 EXCEPT ![h] = W32(0, 1)]
            /\ resv' = [resv EXCEPT ![h] = None]
            /\ UNCHANGED <<mem, writes>>
    /\ pc' = [pc EXCEPT ![h] = "bnez"]
    /\ UNCHANGED <<lock_var, csrVars, trapVars, a0, a1, a2, mainVars, build, ticks,
                   traps, exts, entry, lock0>>

\* bnez a3, again; falling through, atomic_lr_sc returns
AtomicBnez(h) ==
    /\ pc[h] = "bnez" /\ Runs(h)
    /\ pc' = [pc EXCEPT ![h] = IF a3[h] # ZERO32 THEN "la" ELSE "acq"]
    /\ UNCHANGED <<memVars, csrVars, trapVars, a0, a1, a2, a3, resv, mainVars,
                   build, ticks, traps, exts, histVars>>

AtomicLrSc(h) ==
    \/ AtomicLa(h)
    \/ AtomicLi(h)
    \/ AtomicLr(h)
    \/ AtomicBne(h)
    \/ AtomicSc(h)
    \/ AtomicBnez(h)

\* The harts that called atomic_lr_sc, and those that returned from it.
Contenders == {h \in Harts : pc[h] # "off"}
Acquired == {h \in Harts : pc[h] \in {"acq", "exit"}}

\* ------------------------------------------------------------------------
\* main, executed by the trap hart
\* ------------------------------------------------------------------------
\* *IO_MTIME: one 32-bit load of the counter.
MainLoad ==
    /\ pc[TrapHart] = "m_ld" /\ Runs(TrapHart)
    /\ LET half == NextHalf(Loaded(mld), build)
           new == [mld EXCEPT ![half] = mem[HalfAddr(IO_MTIME, half)]]
       IN  /\ mld' = new
           /\ pc' = [pc EXCEPT ![TrapHart] =
                        IF Loaded(new) = Halves THEN "m_st" ELSE "m_ld"]
    /\ UNCHANGED <<memVars, csrVars, trapVars, a0, a1, a2, a3, resv, mst, build,
                   ticks, traps, exts, histVars>>

\* The value main writes to the compare register.
ArmValue(counter) == Add64(counter, U64(INITIAL_INTERVAL))

\* *IO_MTIMECMP = ...: one 32-bit store to the compare register.
MainStore ==
    /\ pc[TrapHart] = "m_st" /\ Runs(TrapHart)
    /\ LET half == NextHalf(mst, build)
           v == ArmValue(Join64(mld.lo, mld.hi))
       IN  /\ Store(HalfAddr(IO_MTIMECMP, half), HalfOf(v, half), "main")
           /\ mst' = mst \cup {half}
           /\ pc' = [pc EXCEPT ![TrapHart] =
                        IF mst \cup {half} = Halves THEN "printf" ELSE "m_st"]
    /\ UNCHANGED <<lock_var, csrVars, trapVars, a0, a1, a2, a3, resv, mld, build,
                   ticks, traps, exts, entry, lock0>>

\* printf(...); then the call of atomic_lr_sc
MainPrintf ==
    /\ pc[TrapHart] = "printf" /\ Runs(TrapHart)
    /\ pc' = [pc EXCEPT ![TrapHart] = "la"]
    /\ UNCHANGED <<memVars, csrVars, trapVars, a0, a1, a2, a3, resv, mainVars,
                   build, ticks, traps, exts, histVars>>

\* return 0
MainReturn ==
    /\ pc[TrapHart] = "acq" /\ Runs(TrapHart)
    /\ pc' = [pc EXCEPT ![TrapHart] = "exit"]
    /\ UNCHANGED <<memVars, csrVars, trapVars, a0, a1, a2, a3, resv, mainVars,
                   build, ticks, traps, exts, histVars>>

\* ------------------------------------------------------------------------
\* Interrupt hardware
\* ------------------------------------------------------------------------
\* The timer raises its pending bit once the counter has reached the compare value.
TimerFire ==
    /\ ~LessLimbs(Mtime, Mtimecmp)
    /\ ~TestBit(mip, TIMER_BIT)
    /\ mip' = SetBits(mip, TimerMask)
    /\ UNCHANGED <<memVars, mcause, trapVars, hartVars, mainVars, build, ticks,
                   traps, exts, histVars>>

\* A device raises the external interrupt.
ExternalRaise ==
    /\ exts < MaxExt
    /\ ~TestBit(mip, EXTERNAL_BIT)
    /\ exts' = exts + 1
    /\ mip' = SetBits(mip, ExternalMask)
    /\ UNCHANGED <<memVars, mcause, trapVars, hartVars, mainVars, build, ticks,
                   traps, histVars>>

PendingBit(c) == IF c = MCAUSE_TIMER THEN TIMER_BIT ELSE EXTERNAL_BIT

\* A pending interrupt is delivered between two instructions of normal-mode
\* code; whether the trap drops the hart's reservation is up to the hardware.
Interrupt ==
    /\ \E c \in {MCAUSE_TIMER, MCAUSE_EXTERNAL} :
          /\ TestBit(mip, PendingBit(c))
          /\ TrapEntry(c)
    /\ \E keep \in BOOLEAN :
          resv' = IF keep THEN resv ELSE [resv EXCEPT ![TrapHart] = None]
    /\ UNCHANGED <<memVars, mip, hcause, pc, a0, a1, a2, a3, mainVars, build, ticks,
                   exts, writes, lock0>>

\* ------------------------------------------------------------------------
\* The dispatcher alone: any cause, from any state of the registers
\* ------------------------------------------------------------------------
InitTrap ==
    /\ InitWith(CounterInits, CmpInits, {ZERO32, W32(0, 1)}, {}, {})
    /\ mip \in MipInits
    /\ pc = [h \in Harts |-> "off"]

TrapAny ==
    /\ \E c \in Causes : TrapEntry(c)
    /\ UNCHANGED <<memVars, mip, hcause, hartVars, mainVars, build, ticks, exts,
                   writes, lock0>>

NextTrap ==
    \/ TrapAny
    \/ HandleResumable
    \/ Halt
    \/ Tick

SpecTrap == InitTrap /\ [][NextTrap]_vars

\* The hart keeps executing handle_trap's instructions once it has entered it.
SpecTrapFair == SpecTrap /\ WF_vars(HandleResumable)

\* ------------------------------------------------------------------------
\* The lock alone: some of the harts call atomic_lr_sc concurrently
\* ------------------------------------------------------------------------
InitLock ==
    /\ InitWith({U64(5000)}, {U64(0)}, {ZERO32, W32(0, 1)}, Harts, RegGarbage)
    /\ mip = ZERO32
    /\ pc \in [Harts -> {"la", "off"}]

NextLock == \E h \in Harts : AtomicLrSc(h)

SpecLock == InitLock /\ [][NextLock]_vars

\* ------------------------------------------------------------------------
\* The program: main on the trap hart, interrupts delivered to it
\* ------------------------------------------------------------------------
Init ==
    /\ InitWith({U64(5000), <<65000, 65535, 0, 0>>}, {U64(0)}, {ZERO32, W32(0, 1)},
                {TrapHart}, {ZERO32, W32(0, 1)})
    /\ mip = ZERO32
    /\ pc = [h \in Harts |-> IF h = TrapHart THEN "m_ld" ELSE "off"]

Next ==
    \/ MainLoad
    \/ MainStore
    \/ MainPrintf
    \/ AtomicLrSc(TrapHart)
    \/ MainReturn
    \/ Interrupt
    \/ HandleResumable
    \/ TimerFire
    \/ ExternalRaise
    \/ Tick

Spec == Init /\ [][Next]_vars

\* The trap hart keeps executing: the next instruction of main, atomic_lr_sc or
\* handle_trap, or the entry of a pending trap.
ProgramStep ==
    \/ MainLoad
    \/ MainStore
    \/ MainPrintf
    \/ AtomicLrSc(TrapHart)
    \/ MainReturn
    \/ Interrupt

SpecFair == Spec /\ WF_vars(ProgramStep \/ HandleResumable)

\* ------------------------------------------------------------------------
\* The program with a counter that keeps advancing and the timer alone
\* ------------------------------------------------------------------------
\* The counter, advancing by one at a time, gets to the value the compare
\* register holds.
Advance ==
    /\ LessLimbs(Mtime, Mtimecmp)
    /\ mem' = [mem EXCEPT ![IO_MTIME] = Lo32(Mtimecmp),
                          ![HiAddr(IO_MTIME)] = Hi32(Mtimecmp)]
    /\ UNCHANGED <<lock_var, csrVars, trapVars, hartVars, mainVars, build, ticks,
                   traps, exts, histVars>>

\* handle_trap's instructions on the path of the timer interrupt.
HandleTimer ==
    \/ HandleCsrr
    \/ HandleSwitch
    \/ TimerCsrc
    \/ TimerLoad
    \/ TimerStore
    \/ HandleReturn

InitFlow ==
    /\ InitWith({U64(5000), <<65000, 65535, 0, 0>>}, CmpInits, {ZERO32},
                {TrapHart}, {W32(0, 1)})
    /\ mip = ZERO32
    /\ pc = [h \in Harts |-> IF h = TrapHart THEN "m_ld" ELSE "off"]

NextFlow ==
    \/ ProgramStep
    \/ HandleTimer
    \/ TimerFire
    \/ Advance

\* The hart keeps executing, the counter keeps advancing, and the timer raises
\* its pending bit once the counter has reached the compare value.
SpecFlow ==
    /\ InitFlow /\ [][NextFlow]_vars
    /\ WF_vars(ProgramStep \/ HandleTimer) /\ WF_vars(TimerFire) /\ WF_vars(Advance)

\* ------------------------------------------------------------------------
\* Properties of the dispatcher
\* ------------------------------------------------------------------------
RECURSIVE SubLimbs(_, _, _)
SubLimbs(a, b, borrow) ==
    IF a = <<>> THEN <<>>
    ELSE LET d == Head(a) - Head(b) - borrow
         IN  <<(d + LimbBase) % LimbBase>>
                 \o SubLimbs(Tail(a), Tail(b), IF d < 0 THEN 1 ELSE 0)

\* a - b in uint64_t arithmetic.
Sub64(a, b) == SubLimbs(a, b, 0)

\* handle_trap is about to return from the case of cause c.
Returns(c) == hpc = "ret" /\ hcause = c
\* The counter value handle_trap read.
CounterRead == Join64(hld.lo, hld.hi)
\* Every bit of the pending field but bit b is as it was at trap entry.
OtherBitsKept(b) == \A i \in (0..31) \ {b} : TestBit(mip, i) = TestBit(entry.mip, i)
Resumable == {MCAUSE_TIMER, MCAUSE_EXTERNAL}

\* C2: when handle_trap returns from a timer interrupt, bit 7 of the pending
\* field is clear and every other bit is as it was at trap entry.
C2_TimerBitCleared ==
    Returns(MCAUSE_TIMER) => (~TestBit(mip, TIMER_BIT) /\ OtherBitsKept(TIMER_BIT))

C2_Witness ==
    /\ Returns(MCAUSE_TIMER)
    /\ entry.mip = W32(65535, 65535)
    /\ mip = W32(65535, 65407)

\* C3: when handle_trap returns from a timer interrupt, the compare register
\* is the counter value it read plus 1000 (in uint64_t arithmetic); a counter
\* of 5000 gives a compare value of 6000.
C3_RearmIsCounterPlusInterval ==
    Returns(MCAUSE_TIMER) =>
        /\ Sub64(Mtimecmp, CounterRead) = U64(1000)
        /\ CounterRead = U64(5000) => Mtimecmp = U64(6000)

C3_Witness ==
    /\ Returns(MCAUSE_TIMER)
    /\ CounterRead = U64(5000)
    /\ Mtimecmp = U64(6000)
    /\ entry.cmp = <<65535, 65535, 65535, 65535>>

\* C4: when handle_trap returns from an external interrupt, bit 11 of the
\* pending field is clear, every other bit is as it was at trap entry, and so
\* is the compare register.
C4_ExternalOnlyClearsItsBit ==
    Returns(MCAUSE_EXTERNAL) =>
        /\ ~TestBit(mip, EXTERNAL_BIT)
        /\ OtherBitsKept(EXTERNAL_BIT)
        /\ Mtimecmp = entry.cmp

C4_Witness ==
    /\ Returns(MCAUSE_EXTERNAL)
    /\ entry.mip = W32(65535, 65535)
    /\ mip = W32(65535, 63487)
    /\ Mtimecmp = <<65535, 65535, 65535, 65535>>

\* C5: for every cause but the timer and the external interrupt, handle_trap
\* goes from the switch to the halt loop and nowhere else, never returns, and
\* from trap entry on the pending field, the compare register and the lock
\* word are never written.
C5_HaltsForever ==
    /\ [](((hpc # "none" /\ mcause \notin Resumable)
             => hpc \in {"csrr", "switch", "halt"}))
    /\ [][(hpc # "none" /\ mcause \notin Resumable)
             => /\ hpc' # "none"
                /\ hpc = "halt" => hpc' = "halt"
                /\ mip' = mip
                /\ Mtimecmp' = Mtimecmp
                /\ LockWord' = LockWord
                /\ writes' = writes]_vars

C5_Witness ==
    /\ hpc = "halt"
    /\ mcause = W32(0, 8)
    /\ ticks = MaxTicks

\* C9: handle_trap writes only the compare register and the pending field,
\* for causes other than the two interrupts both keep their trap-entry
\* values, and the lock word keeps its trap-entry value for every cause.
C9_DispatcherFrame ==
    /\ \A w \in writes : w[2] = "handle_trap" => w[1] \in {"mip", "mtimecmp"}
    /\ hpc # "none" =>
          /\ LockWord = entry.lock
          /\ lock_var = ZERO32
          /\ mcause \notin Resumable => (mip = entry.mip /\ Mtimecmp = entry.cmp)

C9_Witness ==
    /\ hpc = "halt"
    /\ mcause = W32(1, 7)
    /\ entry.prev = MCAUSE_TIMER
    /\ {<<"mip", "handle_trap">>, <<"mtimecmp", "handle_trap">>} \subseteq writes
    /\ LockWord = W32(0, 1)

\* C10: of two consecutive timer dispatches, the first leaves the compare
\* register at its counter read c1 plus 1000 and the second at its counter
\* read c2 plus 1000, which is c1 + 2000 only when c2 = c1 + 1000.
C10_RearmIsRelative ==
    (hpc # "none" /\ mcause = MCAUSE_TIMER /\ entry.prev = MCAUSE_TIMER) =>
        LET c1 == Join64(entry.prevld.lo, entry.prevld.hi)
        IN  /\ entry.cmp = Add64(c1, U64(1000))
            /\ hpc = "ret" =>
                  /\ Mtimecmp = Add64(CounterRead, U64(1000))
                  /\ CounterRead # Add64(c1, U64(1000)) => Mtimecmp # Add64(c1, U64(2000))

C10_Witness ==
    /\ Returns(MCAUSE_TIMER)
    /\ entry.prev = MCAUSE_TIMER
    /\ Join64(entry.prevld.lo, entry.prevld.hi) = U64(5000)
    /\ CounterRead = U64(6200)
    /\ Mtimecmp = U64(7200)

\* The least counter value whose rearm wraps around 2^64.
WrapStart == Sub64(U64(0), U64(REARM_INTERVAL))

\* C19: when handle_trap returns from a timer interrupt the compare register
\* is 1000 ahead of the counter value read, modulo 2^64: greater than it for
\* every read below 2^64 - 1000, and wrapped to a value below 1000, smaller
\* than the read, for the reads from 2^64 - 1000 on.
C19_RearmWrapsOnlyAtTop ==
    Returns(MCAUSE_TIMER) =>
        /\ Sub64(Mtimecmp, CounterRead) = U64(REARM_INTERVAL)
        /\ LessLimbs(CounterRead, WrapStart) => LessLimbs(CounterRead, Mtimecmp)
        /\ ~LessLimbs(CounterRead, WrapStart) =>
              /\ LessLimbs(Mtimecmp, CounterRead)
              /\ LessLimbs(Mtimecmp, U64(REARM_INTERVAL))

C19_Witness ==
    /\ Returns(MCAUSE_TIMER)
    /\ CounterRead = <<64536, 65535, 65535, 65535>>
    /\ Mtimecmp = U64(0)
    /\ entry.cmp = <<65535, 65535, 65535, 65535>>

\* C11: for the timer and the external interrupt handle_trap never enters the
\* halt loop and, once entered, always gets to its return, whatever the
\* pending field, the counter and the compare register hold.
C11_ResumableReturns ==
    /\ []((hpc # "none" /\ mcause \in Resumable) => hpc # "halt")
    /\ (hpc # "none" /\ mcause \in Resumable) ~> (hpc = "none")

C11_Witness ==
    /\ Returns(MCAUSE_EXTERNAL)
    /\ entry.prev = MCAUSE_TIMER
    /\ entry.mip = W32(65535, 65407)
    /\ ticks = MaxTicks

\* ------------------------------------------------------------------------
\* Properties of the lock
\* ------------------------------------------------------------------------
\* C1: with the lock word 0 at start, at most one hart has returned from
\* atomic_lr_sc, whatever the number of harts executing it.
C1_MutualExclusion == lock0 = ZERO32 => Cardinality(Acquired) <= 1

\* C6: with the lock word 0 at start and one hart calling atomic_lr_sc, the
\* lock word is not 0 once the call has returned.
C6_SingleAcquireLocks ==
    (lock0 = ZERO32 /\ Cardinality(Contenders) = 1 /\ Acquired # {})
        => LockWord # ZERO32

\* C7: with the lock word 0 at start and two harts calling atomic_lr_sc, the
\* store-conditional of a hart that holds a reservation together with the
\* other succeeds and drops the other's reservation, and once a hart has
\* returned the lock word is not 0 and exactly one hart has returned.
C7_TwoContenders ==
    /\ []((lock0 = ZERO32 /\ Cardinality(Contenders) = 2 /\ Acquired # {})
            => (LockWord # ZERO32 /\ Cardinality(Acquired) = 1))
    /\ [][\A h, g \in Harts :
            (/\ h # g /\ lock0 = ZERO32 /\ Cardinality(Contenders) = 2
             /\ resv[h] = LOCK_ADDR /\ resv[g] = LOCK_ADDR
             /\ pc[h] = "sc" /\ pc'[h] = "bnez")
                => (a3'[h] = ZERO32 /\ resv'[g] = None)]_vars

\* C14: a hart returns from atomic_lr_sc only right after its successful
\* store-conditional; a store-conditional succeeds only with the reservation of
\* its load-reserved intact, which read 0, and the lock word still 0; and every
\* successful store-conditional leaves the lock word not 0.
C14_ScFromZeroToLocked ==
    [][\A h \in Harts :
          /\ (pc'[h] = "acq" /\ pc[h] # "acq") => (pc[h] = "bnez" /\ a3[h] = ZERO32)
          /\ (pc[h] = "sc" /\ pc'[h] = "bnez" /\ a3'[h] = ZERO32) =>
                /\ resv[h] = LOCK_ADDR
                /\ a3[h] = ZERO32
                /\ LockWord = ZERO32
                /\ LockWord' # ZERO32]_vars

\* C15: a hart whose load-reserved read a value other than 0 goes from the
\* branch back to the label again, and a hart is at the store-conditional only
\* when its load-reserved read 0: it never stores to a lock word it saw held.
C15_NoScWhenHeld ==
    /\ [](\A h \in Harts : pc[h] = "sc" => a3[h] = ZERO32)
    /\ [][\A h \in Harts :
            (pc[h] = "bne" /\ a3[h] # ZERO32 /\ pc'[h] # "bne")
                => (pc'[h] = "la" /\ LockWord' = LockWord)]_vars

C15_Witness ==
    /\ lock0 = ZERO32
    /\ LockWord = W32(1, 2)
    /\ \E h \in Harts : pc[h] = "la" /\ a3[h] = W32(1, 2) /\ resv[h] = LOCK_ADDR

\* C16: from a state where the lock word is not 0 on, it keeps its value, no
\* store-conditional succeeds, and no hart returns from atomic_lr_sc but one
\* whose store-conditional had succeeded before.
C16_HeldForever ==
    [][LockWord # ZERO32 =>
          /\ LockWord' = LockWord
          /\ \A h \in Harts :
                /\ (pc[h] = "sc" /\ pc'[h] = "bnez") => a3'[h] # ZERO32
                /\ (pc'[h] = "acq" /\ pc[h] # "acq")
                      => (pc[h] = "bnez" /\ a3[h] = ZERO32)]_vars

C16_Witness ==
    /\ lock0 = ZERO32
    /\ LockWord = W32(0, 1)
    /\ Acquired # {}
    /\ \E h \in Harts : pc[h] = "bnez" /\ a3[h] = W32(0, 1)

\* ------------------------------------------------------------------------
\* Properties of the program
\* ------------------------------------------------------------------------
\* C12: with a counter that keeps advancing, every timer interrupt that is
\* dispatched (but the last the model allows) is followed by another one,
\* before main's arm and after it.
C12_TimerKeepsFiring ==
    \A k \in 1..(MaxTraps - 1) :
        (traps = k /\ mcause = MCAUSE_TIMER) ~> (traps = k + 1 /\ mcause = MCAUSE_TIMER)

C12_Witness ==
    /\ traps = MaxTraps
    /\ hpc = "csrr"
    /\ mcause = MCAUSE_TIMER
    /\ entry.prev = MCAUSE_TIMER
    /\ Mtime = entry.cmp
    /\ pc[TrapHart] = "bne"

\* C13: the lock word changes only in a step that is a successful
\* store-conditional of atomic_lr_sc, executed outside handle_trap; every write
\* of it is atomic_lr_sc's, and the global lock_var never changes.
C13_OnlyScChangesLock ==
    /\ [](/\ lock_var = ZERO32
          /\ \A w \in writes : w[1] = "lock" => w[2] = "atomic_lr_sc")
    /\ [][LockWord' # LockWord =>
            /\ hpc = "none"
            /\ pc[TrapHart] = "sc" /\ pc'[TrapHart] = "bnez"
            /\ ScSucceeds(TrapHart)
            /\ a3'[TrapHart] = ZERO32]_vars

C13_Witness ==
    /\ lock0 = ZERO32
    /\ LockWord = W32(0, 1)
    /\ pc[TrapHart] = "bnez"
    /\ traps = MaxTraps
    /\ <<"mtimecmp", "main">> \in writes

\* The largest advance of the counter in one step of the model.
MaxTickStep == CHOOSE d \in TickSteps : \A e \in TickSteps : e <= d
\* v is a value the counter has held since the start, or lies between two
\* such values.
HeldSinceStart(v) == LessLimbs(Sub64(Mtime, v), U64(ticks * MaxTickStep + 1))

\* C17: the counter value main and handle_trap add their interval to is one
\* the counter has held; and the first 32-bit store of main's arm does not
\* make the timer due when it was not due before and the value being written
\* is not due either.
C17_NoTornAccess ==
    /\ [](/\ pc[TrapHart] = "m_st" => HeldSinceStart(Join64(mld.lo, mld.hi))
          /\ hpc = "t_st" => HeldSinceStart(CounterRead))
    /\ [][(/\ hpc = "none" /\ pc[TrapHart] = "m_st" /\ mst = {} /\ mst' # {}
           /\ LessLimbs(Mtime, Mtimecmp)
           /\ LessLimbs(Mtime, ArmValue(Join64(mld.lo, mld.hi))))
              => LessLimbs(Mtime', Mtimecmp')]_vars

\* C18: with the lock word 0 at start, main's call of atomic_lr_sc returns
\* whatever interrupts preempt it and whether or not a trap drops the
\* reservation; it returns with the lock word not 0; and no step of
\* handle_trap changes the lock word.
C18_AcquireUnderInterrupts ==
    /\ (lock0 = ZERO32) ~> (pc[TrapHart] \in {"acq", "exit"})
    /\ []((lock0 = ZERO32 /\ pc[TrapHart] \in {"acq", "exit"}) => LockWord # ZERO32)
    /\ [][hpc # "none" => LockWord' = LockWord]_vars

\* A step clears a bit of the pending field (the hardware only sets bits).
BitCleared == \E b \in 0..31 : TestBit(mip, b) /\ ~TestBit(mip', b)

\* C8, as stated: every write of the pending field and of the compare
\* register is made by handle_trap.
C8_OnlyTrapWrites ==
    \A w \in writes : w[1] \in {"mip", "mtimecmp"} => w[2] = "handle_trap"

\* C8, amended: the pending field is written only by handle_trap; the compare
\* register is written only by handle_trap and by the first statement of
\* main; atomic_lr_sc writes neither.
C8_TrapOrInitialArm ==
    /\ [](\A w \in writes :
            /\ w[1] = "mip" => w[2] = "handle_trap"
            /\ w[1] = "mtimecmp" => w[2] \in {"handle_trap", "main"})
    /\ [][/\ BitCleared => hpc \in {"t_csrc", "e_csrc"}
          /\ Mtimecmp' # Mtimecmp =>
                (hpc = "t_st" \/ (hpc = "none" /\ pc[TrapHart] = "m_st"))]_vars

C8_Witness ==
    /\ pc[TrapHart] = "exit"
    /\ writes = {<<"mtimecmp", "main">>, <<"mtimecmp", "handle_trap">>,
                 <<"mip", "handle_trap">>, <<"lock", "atomic_lr_sc">>}

=============================================================================
